---- MODULE Spec2Model ----
(***************************************************************************)
(* Model of src/app.py: the /search request handler (two sequential        *)
(* provider calls), the export-path footnote stripper, the markdown block  *)
(* parser and the filename sanitizer.                                      *)
(*                                                                         *)
(* A Python str is a sequence of one-character strings.  The third-party   *)
(* markdown-to-HTML converter is not modelled: the 'content' field of the  *)
(* /search answer is left out, the 'markdown' field is kept.               *)
(***************************************************************************)
EXTENDS Integers, Sequences, FiniteSets, TLC

VARIABLES
    \* /search handler
    pc, data, customer, theme, result, step4_result, calls, response,
    \* _remove_experts_footnote_markers_from_markdown, applied once and twice
    spc, markdown_text, stripped_once, stripped_twice,
    \* _markdown_blocks
    bpc, btext, lines, i, blocks,
    \* _sanitize_filename_component
    fpc, value, component

search_vars == <<pc, data, customer, theme, result, step4_result, calls, response>>
strip_vars == <<spc, markdown_text, stripped_once, stripped_twice>>
block_vars == <<bpc, btext, lines, i, blocks>>
file_vars == <<fpc, value, component>>
vars == <<search_vars, strip_vars, block_vars, file_vars>>

-----------------------------------------------------------------------------
(* Bounds of the model *)

MaxLines == 4
MaxStripLines == 3
MaxValueLen == 5

-----------------------------------------------------------------------------
(* Python str primitives *)

Whitespace == {" ", "\t"}

Digits == {"0", "1", "2", "3", "4", "5", "6", "7", "8", "9"}

UpperCase == {"A", "B", "C", "D", "E", "F", "G", "H", "I", "J", "K", "L", "M",
              "N", "O", "P", "Q", "R", "S", "T", "U", "V", "W", "X", "Y", "Z"}

LowerCase == {"a", "b", "c", "d", "e", "f", "g", "h", "i", "j", "k", "l", "m",
              "n", "o", "p", "q", "r", "s", "t", "u", "v", "w", "x", "y", "z"}

LowerOf == [c \in UpperCase |->
    CASE c = "A" -> "a" [] c = "B" -> "b" [] c = "C" -> "c" [] c = "D" -> "d"
      [] c = "E" -> "e" [] c = "F" -> "f" [] c = "G" -> "g" [] c = "H" -> "h"
      [] c = "I" -> "i" [] c = "J" -> "j" [] c = "K" -> "k" [] c = "L" -> "l"
      [] c = "M" -> "m" [] c = "N" -> "n" [] c = "O" -> "o" [] c = "P" -> "p"
      [] c = "Q" -> "q" [] c = "R" -> "r" [] c = "S" -> "s" [] c = "T" -> "t"
      [] c = "U" -> "u" [] c = "V" -> "v" [] c = "W" -> "w" [] c = "X" -> "x"
      [] c = "Y" -> "y" [] c = "Z" -> "z"]

\* str.lower()
Lower(s) == [k \in 1..Len(s) |-> IF s[k] \in UpperCase THEN LowerOf[s[k]] ELSE s[k]]

DropFirst(s, k) == SubSeq(s, k + 1, Len(s))

RECURSIVE LStrip(_)
\* str.lstrip()
LStrip(s) ==
    IF s # <<>> /\ s[1] \in Whitespace THEN LStrip(Tail(s)) ELSE s

RECURSIVE RStrip(_)
\* str.rstrip()
RStrip(s) ==
    IF s # <<>> /\ s[Len(s)] \in Whitespace THEN RStrip(SubSeq(s, 1, Len(s) - 1)) ELSE s

\* str.strip()
Strip(s) == RStrip(LStrip(s))

\* str.startswith(p)
StartsWith(s, p) == Len(s) >= Len(p) /\ SubSeq(s, 1, Len(p)) = p

\* str.endswith(p)
EndsWith(s, p) == Len(s) >= Len(p) /\ SubSeq(s, Len(s) - Len(p) + 1, Len(s)) = p

\* p in s
Contains(s, p) == \E k \in 0..(Len(s) - Len(p)) : SubSeq(s, k + 1, k + Len(p)) = p

RECURSIVE Split(_, _)
\* str.split(sep) for a one-character separator
Split(s, sep) ==
    IF \A k \in 1..Len(s) : s[k] # sep
    THEN <<s>>
    ELSE LET p == CHOOSE k \in 1..Len(s) :
                      s[k] = sep /\ \A j \in 1..(k - 1) : s[j] # sep
         IN <<SubSeq(s, 1, p - 1)>> \o Split(DropFirst(s, p), sep)

\* str.splitlines() ("\n" is the only line boundary of the modelled alphabet)
SplitLines(s) ==
    IF s = <<>> THEN <<>>
    ELSE LET parts == Split(s, "\n")
         IN IF parts[Len(parts)] = <<>> THEN SubSeq(parts, 1, Len(parts) - 1) ELSE parts

RECURSIVE Join(_, _)
\* sep.join(parts)
Join(parts, sep) ==
    IF parts = <<>> THEN <<>>
    ELSE IF Len(parts) = 1 THEN parts[1]
    ELSE parts[1] \o sep \o Join(Tail(parts), sep)

RECURSIVE RunLength(_, _)
\* the length of the longest prefix of s made of characters of set
RunLength(s, set) ==
    IF s # <<>> /\ s[1] \in set THEN 1 + RunLength(Tail(s), set) ELSE 0

-----------------------------------------------------------------------------
(* /search *)

AI == <<"A", "I">>

NoText == <<>>

CustomerValues == {<<>>, <<" ">>, <<" ", "\t">>, <<"A">>, <<" ", "A", " ">>}

ThemeValues == {<<"A", "I">>, <<" ", "G", " ">>}

\* request.get_json(): an object whose keys 'customer' and 'theme' may be missing
Requests ==
    [has_customer : BOOLEAN, customer : CustomerValues,
     has_theme : BOOLEAN, theme : ThemeValues]

\* dict.get(key, default)
Get(d, key, default) ==
    IF key = "customer"
    THEN (IF d.has_customer THEN d.customer ELSE default)
    ELSE (IF d.has_theme THEN d.theme ELSE default)

Contents == {<<"M">>, <<"E", "\n">>}

None == [kind |-> "none", choices |-> <<>>]

\* what search_perplexity can return: None on any RequestException, else the
\* parsed body: an empty object, an object without 'choices', or an object whose
\* 'choices' is a list (possibly empty) of choices carrying message content
Outcomes ==
    {None, [kind |-> "empty", choices |-> <<>>], [kind |-> "no_choices", choices |-> <<>>]}
    \cup {[kind |-> "choices", choices |-> cs] :
            cs \in {<<>>} \cup {<<c>> : c \in Contents} \cup {<<c, d>> : c \in Contents, d \in {<<"X">>}}}

\* Python truthiness of a search_perplexity result
Truthy(r) == r.kind \notin {"none", "empty"}

\* "choices" in r
HasChoices(r) == r.kind = "choices"

NoResponse ==
    [status |-> 0, error |-> "", success |-> FALSE,
     customer |-> NoText, theme |-> NoText, markdown |-> NoText]

ErrorResponse(code, msg) ==
    [status |-> code, error |-> msg, success |-> FALSE,
     customer |-> NoText, theme |-> NoText, markdown |-> NoText]

SuccessResponse(c, t, md) ==
    [status |-> 200, error |-> "", success |-> TRUE,
     customer |-> c, theme |-> t, markdown |-> md]

\* CustomerOf without the strip(): a whitespace-only customer passes validation
CustomerOfUnstripped(d) == Get(d, "customer", NoText)

\* customer = data.get('customer', '').strip()
CustomerOf(d) == Strip(Get(d, "customer", NoText))

\* theme = data.get('theme', 'AI').strip()
ThemeOf(d) == Strip(Get(d, "theme", AI))

\* lines 265-270: read the request, reject a missing customer
Validate ==
    /\ pc = "start"
    /\ customer' = CustomerOf(data)
    /\ theme' = ThemeOf(data)
    /\ IF CustomerOf(data) = NoText
       THEN /\ response' = ErrorResponse(400, "Customer name is required")
            /\ pc' = "done"
       ELSE /\ response' = response
            /\ pc' = "main_query"
    /\ UNCHANGED <<data, result, step4_result, calls>>

\* line 322: result = search_perplexity(PERPLEXITY_API_KEY, query)
CallPrimary ==
    /\ pc = "main_query"
    /\ \E r \in Outcomes : result' = r
    /\ calls' = Append(calls, [query |-> "main", customer |-> customer, theme |-> theme])
    /\ pc' = "check_main"
    /\ UNCHANGED <<data, customer, theme, step4_result, response>>

\* CheckPrimary retrying the primary call instead of answering 500
CheckPrimaryRetrying ==
    /\ pc = "check_main"
    /\ IF ~Truthy(result) \/ ~HasChoices(result) \/ Len(result.choices) = 0
       THEN pc' = "main_query"
       ELSE pc' = "step4_query"
    /\ UNCHANGED <<data, customer, theme, result, step4_result, calls, response>>

\* lines 324-331: the primary result must be truthy and carry a choice
CheckPrimary ==
    /\ pc = "check_main"
    /\ IF ~Truthy(result)
       THEN /\ response' = ErrorResponse(500, "Failed to get results from Perplexity API")
            /\ pc' = "done"
       ELSE IF ~HasChoices(result) \/ Len(result.choices) = 0
       THEN /\ response' = ErrorResponse(500, "No results returned from API")
            /\ pc' = "done"
       ELSE /\ response' = response
            /\ pc' = "step4_query"
    /\ UNCHANGED <<data, customer, theme, result, step4_result, calls>>

\* line 334: step4_result = search_perplexity(PERPLEXITY_API_KEY, step4_query)
CallSecondary ==
    /\ pc = "step4_query"
    /\ \E r \in Outcomes : step4_result' = r
    /\ calls' = Append(calls, [query |-> "step4", customer |-> customer, theme |-> theme])
    /\ pc' = "combine"
    /\ UNCHANGED <<data, customer, theme, result, response>>

\* lines 335-341: the step 4 content is appended only when the call succeeded
Step4Usable(r) == Truthy(r) /\ HasChoices(r) /\ Len(r.choices) > 0

CombinedContent(main, s4) ==
    IF Step4Usable(s4)
    THEN main.choices[1] \o <<"\n", "\n">> \o s4.choices[1]
    ELSE main.choices[1]

\* Combine answering 500 when the step 4 call failed
CombineAborting ==
    /\ pc = "combine"
    /\ IF Step4Usable(step4_result)
       THEN response' = SuccessResponse(customer, theme, CombinedContent(result, step4_result))
       ELSE response' = ErrorResponse(500, "Failed to get results from Perplexity API")
    /\ pc' = "done"
    /\ UNCHANGED <<data, customer, theme, result, step4_result, calls>>

\* lines 335-352: combine and answer
Combine ==
    /\ pc = "combine"
    /\ response' = SuccessResponse(customer, theme, CombinedContent(result, step4_result))
    /\ pc' = "done"
    /\ UNCHANGED <<data, customer, theme, result, step4_result, calls>>

SearchNext ==
    \/ (Validate /\ UNCHANGED <<strip_vars, block_vars, file_vars>>)
    \/ (CallPrimary /\ UNCHANGED <<strip_vars, block_vars, file_vars>>)
    \/ (CheckPrimary /\ UNCHANGED <<strip_vars, block_vars, file_vars>>)
    \/ (CallSecondary /\ UNCHANGED <<strip_vars, block_vars, file_vars>>)
    \/ (Combine /\ UNCHANGED <<strip_vars, block_vars, file_vars>>)

SearchInit ==
    /\ pc = "start"
    /\ data \in Requests
    /\ customer = NoText /\ theme = NoText
    /\ result = None /\ step4_result = None
    /\ calls = <<>> /\ response = NoResponse
    /\ spc = "idle" /\ markdown_text = NoText
    /\ stripped_once = NoText /\ stripped_twice = NoText
    /\ bpc = "idle" /\ btext = NoText /\ lines = <<>> /\ i = 0 /\ blocks = <<>>
    /\ fpc = "idle" /\ value = NoText /\ component = NoText

SpecSearch == SearchInit /\ [][SearchNext]_vars

-----------------------------------------------------------------------------
(* Claims about /search *)

PrimaryHasChoice == result.kind = "choices" /\ result.choices # <<>>

SecondaryFailed == step4_result.kind # "choices" \/ step4_result.choices = <<>>

\* C1: once the primary call returned a response with at least one choice, the
\* request is answered with success however the secondary call ends: the returned
\* markdown is the primary content alone when the secondary call failed (failure
\* signal, missing or empty 'choices'), and the primary content, a blank line and
\* the secondary content when it succeeded.
C1_SecondaryFailureKeepsPrimary ==
    (pc = "done" /\ PrimaryHasChoice) =>
        /\ response.status = 200
        /\ response.success
        /\ response.error = ""
        /\ SecondaryFailed => response.markdown = result.choices[1]
        /\ ~SecondaryFailed =>
              response.markdown =
                  result.choices[1] \o <<"\n", "\n">> \o step4_result.choices[1]

C1_Witness ==
    /\ pc = "done"
    /\ PrimaryHasChoice
    /\ Len(calls) = 2
    /\ step4_result = None
    /\ response.success
    /\ response.markdown = result.choices[1]

CustomerMissing ==
    ~data.has_customer \/ \A k \in 1..Len(data.customer) : data.customer[k] \in Whitespace

\* C2: a /search request whose customer value is missing, empty or
\* whitespace-only is answered 400 'Customer name is required' and no provider
\* call is ever issued for it.
C2_MissingCustomerRejected ==
    CustomerMissing =>
        /\ calls = <<>>
        /\ pc \in {"start", "done"}
        /\ pc = "done" =>
              /\ response.status = 400
              /\ response.error = "Customer name is required"
              /\ ~response.success

C2_Witness ==
    /\ pc = "done"
    /\ data.has_customer
    /\ data.customer = <<" ", "\t">>
    /\ response.status = 400
    /\ calls = <<>>

\* C3: within one request the provider is called at most twice and never
\* retried: the primary call comes first, the secondary call is issued only after
\* the primary call returned a non-empty 'choices' list, and a primary call that
\* fails or returns no choices is answered 500 without a secondary call.
C3_SequentialNoRetry ==
    /\ Len(calls) <= 2
    /\ Len(calls) >= 1 => calls[1].query = "main"
    /\ Len(calls) = 2 => (calls[2].query = "step4" /\ PrimaryHasChoice)
    /\ (pc = "done" /\ Len(calls) >= 1 /\ ~PrimaryHasChoice) =>
          (Len(calls) = 1 /\ response.status = 500 /\ ~response.success)

C3_Witness ==
    /\ pc = "done"
    /\ Len(calls) = 1
    /\ result.kind = "choices"
    /\ result.choices = <<>>
    /\ response.status = 500

-----------------------------------------------------------------------------
(* _remove_experts_footnote_markers_from_markdown *)

WwtExperts == <<"w", "w", "t", " ", "e", "x", "p", "e", "r", "t", "s">>

WwtCapabilities == <<"w", "w", "t", " ", "c", "a", "p", "a", "b", "i", "l", "i", "t", "i", "e", "s">>

WwtAtcLabs == <<"w", "w", "t", " ", "a", "t", "c", " ", "l", "a", "b", "s">>

RECURSIVE RemoveMarkers(_)
\* re.sub(r"\[\d+\]", "", l): one left-to-right pass over non-overlapping matches
RemoveMarkers(s) ==
    IF s = <<>> THEN <<>>
    ELSE LET d == RunLength(Tail(s), Digits)
         IN IF s[1] = "[" /\ d >= 1 /\ Len(s) >= d + 2 /\ s[d + 2] = "]"
            THEN RemoveMarkers(DropFirst(s, d + 2))
            ELSE <<s[1]>> \o RemoveMarkers(Tail(s))

\* the index (from 1) of the first line containing "wwt experts", 0 when none
ExpertsStart(ls) ==
    IF \E k \in 1..Len(ls) : Contains(Lower(ls[k]), WwtExperts)
    THEN CHOOSE k \in 1..Len(ls) :
             /\ Contains(Lower(ls[k]), WwtExperts)
             /\ \A j \in 1..(k - 1) : ~Contains(Lower(ls[j]), WwtExperts)
    ELSE 0

\* SectionEnds recognising only the heading lines
SectionEndsHeadingOnly(line) ==
    LET low == Strip(Lower(line))
    IN StartsWith(low, <<"#", "#", " ">>) \/ StartsWith(low, <<"#", " ">>)

\* lines 140-146: the line ends the Experts section
SectionEnds(line) ==
    LET low == Strip(Lower(line))
    IN \/ StartsWith(low, <<"#", "#", " ">>) \/ StartsWith(low, <<"#", " ">>)
       \/ low \in {WwtCapabilities, WwtAtcLabs}

\* the index (from 1) of the first line after start that ends the section,
\* Len(ls) + 1 when none
ExpertsEnd(ls, start) ==
    IF \E k \in (start + 1)..Len(ls) : SectionEnds(ls[k])
    THEN CHOOSE k \in (start + 1)..Len(ls) :
             /\ SectionEnds(ls[k])
             /\ \A j \in (start + 1)..(k - 1) : ~SectionEnds(ls[j])
    ELSE Len(ls) + 1

remove_experts_footnote_markers_from_markdown(text) ==
    IF text = <<>> THEN text
    ELSE LET ls == SplitLines(text)
             start == ExpertsStart(ls)
         IN IF start = 0 THEN text
            ELSE LET end == ExpertsEnd(ls, start)
                     before == SubSeq(ls, 1, start - 1)
                     section == SubSeq(ls, start, end - 1)
                     after == SubSeq(ls, end, Len(ls))
                     cleaned_section == [k \in 1..Len(section) |-> RemoveMarkers(section[k])]
                 IN Join(before \o cleaned_section \o after, <<"\n">>)

StripLineSet ==
    { <<"W", "W", "T", " ", "E", "x", "p", "e", "r", "t", "s", "[", "1", "]">>,
      <<"a", "[", "1", "[", "2", "]", "]">>,
      <<"#", " ", "h", "[", "3", "]">>,
      <<"#", "#", "#", " ", "h", "[", "4", "]">>,
      <<" ", "W", "W", "T", " ", "A", "T", "C", " ", "L", "a", "b", "s", " ">>,
      <<"w", "w", "t", " ", "c", "a", "p", "a", "b", "i", "l", "i", "t", "i", "e", "s">>,
      <<"b", "[", "1", "2", "]", "c">>,
      <<>> }

\* the sequences of at most n elements of set
SeqsUpTo(set, n) == UNION {[1..k -> set] : k \in 0..n}

StripTexts == {Join(ls, <<"\n">>) : ls \in SeqsUpTo(StripLineSet, MaxStripLines)}

StripInit ==
    /\ spc = "start"
    /\ markdown_text \in StripTexts
    /\ stripped_once = NoText /\ stripped_twice = NoText
    /\ pc = "idle"
    /\ data = [has_customer |-> FALSE, customer |-> NoText,
               has_theme |-> FALSE, theme |-> NoText]
    /\ customer = NoText /\ theme = NoText
    /\ result = None /\ step4_result = None
    /\ calls = <<>> /\ response = NoResponse
    /\ bpc = "idle" /\ btext = NoText /\ lines = <<>> /\ i = 0 /\ blocks = <<>>
    /\ fpc = "idle" /\ value = NoText /\ component = NoText

\* export_docx line 375: the stripper applied to the received markdown
StripOnce ==
    /\ spc = "start"
    /\ stripped_once' = remove_experts_footnote_markers_from_markdown(markdown_text)
    /\ spc' = "once"
    /\ UNCHANGED <<markdown_text, stripped_twice>>

\* the stripper applied to its own output (a re-export of exported markdown)
StripTwice ==
    /\ spc = "once"
    /\ stripped_twice' = remove_experts_footnote_markers_from_markdown(stripped_once)
    /\ spc' = "twice"
    /\ UNCHANGED <<markdown_text, stripped_once>>

StripNext ==
    \/ (StripOnce /\ UNCHANGED <<search_vars, block_vars, file_vars>>)
    \/ (StripTwice /\ UNCHANGED <<search_vars, block_vars, file_vars>>)

SpecStrip == StripInit /\ [][StripNext]_vars

-----------------------------------------------------------------------------
(* Claims about the footnote stripper *)

\* C4: the stripper is idempotent: applying it to its own output changes nothing.
C4_StripIdempotent ==
    spc = "twice" => stripped_twice = stripped_once

InputLines == SplitLines(markdown_text)

HasExpertsLine ==
    \E k \in 1..Len(InputLines) : Contains(Lower(InputLines[k]), WwtExperts)

SpanStart ==
    CHOOSE k \in 1..Len(InputLines) :
        /\ Contains(Lower(InputLines[k]), WwtExperts)
        /\ \A j \in 1..(k - 1) : ~Contains(Lower(InputLines[j]), WwtExperts)

SpanEndLine(line) ==
    LET t == Lower(Strip(line))
    IN \/ (Len(t) >= 2 /\ t[1] = "#" /\ t[2] = " ")
       \/ (Len(t) >= 3 /\ t[1] = "#" /\ t[2] = "#" /\ t[3] = " ")
       \/ t = WwtCapabilities
       \/ t = WwtAtcLabs

SpanEnd ==
    LET later == {k \in (SpanStart + 1)..Len(InputLines) : SpanEndLine(InputLines[k])}
    IN IF later = {} THEN Len(InputLines) + 1
       ELSE CHOOSE k \in later : \A j \in later : k <= j

\* C5: the stripper changes nothing outside the Experts span (from the first line
\* containing 'wwt experts' to just before the first later level-1 or level-2
\* heading line or 'wwt capabilities' / 'wwt atc labs' line): the lines before the
\* span and the lines from its end onward are in the output unchanged, at the
\* same positions, and a text without a 'wwt experts' line is returned unchanged.
C5_StripFrame ==
    spc # "start" =>
        IF markdown_text = <<>> \/ ~HasExpertsLine
        THEN stripped_once = markdown_text
        ELSE LET n == Len(InputLines)
                 before == SubSeq(InputLines, 1, SpanStart - 1)
                 after == SubSeq(InputLines, SpanEnd, n)
             IN /\ Len(Split(stripped_once, "\n")) = n
                /\ SpanStart > 1 =>
                      StartsWith(stripped_once, Join(before, <<"\n">>) \o <<"\n">>)
                /\ SpanEnd <= n =>
                      EndsWith(stripped_once, <<"\n">> \o Join(after, <<"\n">>))

C5_Witness ==
    /\ spc = "once"
    /\ markdown_text = Join(<<<<"b", "[", "1", "2", "]", "c">>, <<"W", "W", "T", " ", "E", "x", "p", "e", "r", "t", "s", "[", "1", "]">>, <<"#", " ", "h", "[", "3", "]">>>>, <<"\n">>)
    /\ stripped_once = Join(<<<<"b", "[", "1", "2", "]", "c">>, <<"W", "W", "T", " ", "E", "x", "p", "e", "r", "t", "s">>, <<"#", " ", "h", "[", "3", "]">>>>, <<"\n">>)

-----------------------------------------------------------------------------
(* _sanitize_filename_component *)

AllowedChars == UpperCase \cup LowerCase \cup Digits \cup {" ", "_", ".", "-"}

RECURSIVE CollapseWhitespace(_)
\* re.sub(r"\s+", " ", value)
CollapseWhitespace(s) ==
    IF s = <<>> THEN <<>>
    ELSE IF s[1] \in Whitespace
    THEN <<" ">> \o CollapseWhitespace(DropFirst(s, RunLength(s, Whitespace)))
    ELSE <<s[1]>> \o CollapseWhitespace(Tail(s))

\* re.sub(r"[^A-Za-z0-9 _.-]+", "", value)
RemoveDisallowed(s) == SelectSeq(s, LAMBDA c : c \in AllowedChars)

\* str.replace(" ", "_")
SpacesToUnderscores(s) == [k \in 1..Len(s) |-> IF s[k] = " " THEN "_" ELSE s[k]]

Export == <<"e", "x", "p", "o", "r", "t">>

\* lines 115-119, in the order of the code
sanitize_filename_component(v) ==
    LET v1 == Strip(v)
        v2 == CollapseWhitespace(v1)
        v3 == RemoveDisallowed(v2)
        v4 == SpacesToUnderscores(Strip(v3))
    IN IF v4 = <<>> THEN Export ELSE v4

ValueChars == {"a", "b", " ", "@"}

Values == SeqsUpTo(ValueChars, MaxValueLen)

FileInit ==
    /\ fpc = "start"
    /\ value \in Values
    /\ component = NoText
    /\ pc = "idle"
    /\ data = [has_customer |-> FALSE, customer |-> NoText,
               has_theme |-> FALSE, theme |-> NoText]
    /\ customer = NoText /\ theme = NoText
    /\ result = None /\ step4_result = None
    /\ calls = <<>> /\ response = NoResponse
    /\ spc = "idle" /\ markdown_text = NoText
    /\ stripped_once = NoText /\ stripped_twice = NoText
    /\ bpc = "idle" /\ btext = NoText /\ lines = <<>> /\ i = 0 /\ blocks = <<>>

\* export_docx line 412: one component of the download name
Sanitize ==
    /\ fpc = "start"
    /\ component' = sanitize_filename_component(value)
    /\ fpc' = "done"
    /\ UNCHANGED value

FileNext == Sanitize /\ UNCHANGED <<search_vars, strip_vars, block_vars>>

SpecFile == FileInit /\ [][FileNext]_vars

-----------------------------------------------------------------------------
(* Claims about the filename sanitizer *)

\* the rule as the specification states it: remove, collapse, trim, replace, default
StatedRule(v) ==
    LET kept == SelectSeq(v, LAMBDA c : c \in AllowedChars)
        collapsed == CollapseWhitespace(kept)
        replaced == SpacesToUnderscores(Strip(collapsed))
    IN IF replaced = <<>> THEN Export ELSE replaced

\* C8: the sanitizer returns the stated rule applied in the stated order (remove
\* every character outside [A-Za-z0-9 _.-], collapse whitespace runs, trim,
\* replace spaces by underscores, 'export' when empty): the result is never empty,
\* holds only characters of [A-Za-z0-9_.-], and words separated by removed
\* characters and spaces are joined by a single underscore.
C8_SanitizeStatedOrder ==
    fpc = "done" =>
        /\ component = StatedRule(value)
        /\ component # <<>>
        /\ \A k \in 1..Len(component) : component[k] \in AllowedChars \ {" "}
        /\ ~Contains(component, <<"_", "_">>) \/ Contains(value, <<"_">>)

-----------------------------------------------------------------------------
(* _parse_markdown_table and _markdown_blocks *)

Pipe == <<"|">>

\* table_titles, line 198
TableTitles == {WwtCapabilities, WwtAtcLabs, WwtExperts}

\* IsBlank without the strip(): a whitespace-only line is not skipped
IsBlankUnstripped(line) == line = <<>>

\* not line.strip()
IsBlank(line) == Strip(line) = <<>>

\* re.match(r"^(#{1,6})\s+(.*)$", s) on a stripped line
IsHeading(s) ==
    LET h == RunLength(s, {"#"})
    IN h >= 1 /\ h <= 6 /\ Len(s) > h /\ s[h + 1] \in Whitespace

\* len(m.group(1))
HeadingLevel(s) == RunLength(s, {"#"})

\* m.group(2).strip()
HeadingText(s) == Strip(DropFirst(s, RunLength(s, {"#"})))

\* re.match(r"^\|?\s*:?-{3,}", b)
MatchesSeparator(b) ==
    LET b1 == IF b # <<>> /\ b[1] = "|" THEN Tail(b) ELSE b
        b2 == LStrip(b1)
        b3 == IF b2 # <<>> /\ b2[1] = ":" THEN Tail(b2) ELSE b2
    IN RunLength(b3, {"-"}) >= 3

\* is_table_start(idx), idx counted from 0 as in the code
is_table_start(ls, idx) ==
    /\ idx + 1 < Len(ls)
    /\ StartsWith(LStrip(ls[idx + 1]), Pipe)
    /\ MatchesSeparator(LStrip(ls[idx + 2]))

\* split_row, lines 161-167
split_row(row) ==
    LET r0 == Strip(row)
        r1 == IF StartsWith(r0, Pipe) THEN Tail(r0) ELSE r0
        r2 == IF EndsWith(r1, Pipe) THEN SubSeq(r1, 1, Len(r1) - 1) ELSE r1
        cells == Split(r2, "|")
    IN [k \in 1..Len(cells) |-> Strip(cells[k])]

\* NormRow without the truncation of long rows
NormRowPadOnly(r, width) ==
    IF Len(r) < width THEN r \o [k \in 1..(width - Len(r)) |-> <<>>] ELSE r

\* lines 180-185 for one row
NormRow(r, width) ==
    IF Len(r) < width THEN r \o [k \in 1..(width - Len(r)) |-> <<>>]
    ELSE IF Len(r) > width THEN SubSeq(r, 1, width)
    ELSE r

RECURSIVE RowLines(_)
\* lines 173-176: the rows stop at the first line that does not start with "|"
RowLines(ls) ==
    IF ls = <<>> \/ ~StartsWith(Strip(ls[1]), Pipe) THEN <<>>
    ELSE <<ls[1]>> \o RowLines(Tail(ls))

\* _parse_markdown_table
parse_markdown_table(table_lines) ==
    IF Len(table_lines) < 2 THEN [headers |-> <<>>, rows |-> <<>>]
    ELSE LET headers == split_row(table_lines[1])
             rls == RowLines(SubSeq(table_lines, 3, Len(table_lines)))
         IN [headers |-> headers,
             rows |-> [k \in 1..Len(rls) |-> NormRow(split_row(rls[k]), Len(headers))]]

RECURSIVE TableEnd(_, _)
\* line 234: the index (from 0) at which the collection of table lines stops
TableEnd(ls, j) ==
    IF j < Len(ls) /\ Strip(ls[j + 1]) # <<>> /\ StartsWith(LStrip(ls[j + 1]), Pipe)
    THEN TableEnd(ls, j + 1)
    ELSE j

RECURSIVE ParaEnd(_, _)
\* lines 243-252: the index (from 0) at which the paragraph stops
ParaEnd(ls, j) ==
    IF j >= Len(ls) THEN j
    ELSE IF IsBlank(ls[j + 1]) THEN j
    ELSE IF IsHeading(Strip(ls[j + 1])) THEN j
    ELSE IF is_table_start(ls, j) THEN j
    ELSE ParaEnd(ls, j + 1)

Heading(level, text) == [kind |-> "heading", level |-> level, text |-> text]

Paragraph(text) == [kind |-> "paragraph", text |-> text]

Table(headers, rows) == [kind |-> "table", headers |-> headers, rows |-> rows]

\* the key looked up in table_titles without lower()
TitleKeyCaseSensitive(line) == Strip(line)

\* line.strip().lower()
TitleKey(line) == Lower(Strip(line))

\* line 226
IsTitleBeforeTable(ls, idx) ==
    /\ idx + 1 < Len(ls)
    /\ TitleKey(ls[idx + 1]) \in TableTitles
    /\ is_table_start(ls, idx + 1)

BlockLineSet ==
    { <<" ">>,
      <<"x">>,
      <<"#", "#", " ", "H">>,
      <<"W", "W", "T", " ", "E", "x", "p", "e", "r", "t", "s">>,
      <<"|", "a", "|", "b", "|">>,
      <<"|", "-", "-", "-", "|", "-", "-", "-", "|">>,
      <<":", "-", "-", "-", "|", ":", "-", "-", "-", ":">>,
      <<"|", "1", "|">>,
      <<"|", "1", "|", "2", "|", "3", "|">> }

BlockTexts == {Join(ls, <<"\n">>) : ls \in SeqsUpTo(BlockLineSet, MaxLines)}

BlockInit ==
    /\ bpc = "start"
    /\ btext \in BlockTexts
    /\ lines = <<>> /\ i = 0 /\ blocks = <<>>
    /\ pc = "idle"
    /\ data = [has_customer |-> FALSE, customer |-> NoText,
               has_theme |-> FALSE, theme |-> NoText]
    /\ customer = NoText /\ theme = NoText
    /\ result = None /\ step4_result = None
    /\ calls = <<>> /\ response = NoResponse
    /\ spc = "idle" /\ markdown_text = NoText
    /\ stripped_once = NoText /\ stripped_twice = NoText
    /\ fpc = "idle" /\ value = NoText /\ component = NoText

\* lines 195-201
Start ==
    /\ bpc = "start"
    /\ IF btext = <<>>
       THEN bpc' = "done" /\ lines' = lines
       ELSE bpc' = "run" /\ lines' = SplitLines(btext)
    /\ i' = 0
    /\ UNCHANGED <<btext, blocks>>

\* lines 214-216
SkipBlank ==
    /\ bpc = "run" /\ i < Len(lines)
    /\ IsBlank(lines[i + 1])
    /\ i' = i + 1
    /\ UNCHANGED <<bpc, btext, lines, blocks>>

\* lines 218-224
EmitHeading ==
    /\ bpc = "run" /\ i < Len(lines)
    /\ ~IsBlank(lines[i + 1])
    /\ IsHeading(Strip(lines[i + 1]))
    /\ blocks' = Append(blocks, Heading(HeadingLevel(Strip(lines[i + 1])),
                                        HeadingText(Strip(lines[i + 1]))))
    /\ i' = i + 1
    /\ UNCHANGED <<bpc, btext, lines>>

\* lines 226-229
EmitTitleHeading ==
    /\ bpc = "run" /\ i < Len(lines)
    /\ ~IsBlank(lines[i + 1])
    /\ ~IsHeading(Strip(lines[i + 1]))
    /\ IsTitleBeforeTable(lines, i)
    /\ blocks' = Append(blocks, Heading(2, Strip(lines[i + 1])))
    /\ i' = i + 1
    /\ UNCHANGED <<bpc, btext, lines>>

\* lines 231-239
EmitTable ==
    /\ bpc = "run" /\ i < Len(lines)
    /\ ~IsBlank(lines[i + 1])
    /\ ~IsHeading(Strip(lines[i + 1]))
    /\ ~IsTitleBeforeTable(lines, i)
    /\ is_table_start(lines, i)
    /\ LET end == TableEnd(lines, i + 1)
           table_lines == [k \in 1..(end - i) |-> RStrip(lines[i + k])]
           parsed == parse_markdown_table(table_lines)
       IN /\ blocks' = Append(blocks, Table(parsed.headers, parsed.rows))
          /\ i' = end
    /\ UNCHANGED <<bpc, btext, lines>>

\* lines 241-253
EmitParagraph ==
    /\ bpc = "run" /\ i < Len(lines)
    /\ ~IsBlank(lines[i + 1])
    /\ ~IsHeading(Strip(lines[i + 1]))
    /\ ~IsTitleBeforeTable(lines, i)
    /\ ~is_table_start(lines, i)
    /\ LET end == ParaEnd(lines, i + 1)
           para == [k \in 1..(end - i) |-> Strip(lines[i + k])]
       IN /\ blocks' = Append(blocks, Paragraph(Strip(Join(para, <<" ">>))))
          /\ i' = end
    /\ UNCHANGED <<bpc, btext, lines>>

\* line 212: the loop ends, the generator is exhausted
Finish ==
    /\ bpc = "run" /\ i >= Len(lines)
    /\ bpc' = "done"
    /\ UNCHANGED <<btext, lines, i, blocks>>

BlockNext ==
    \/ (Start /\ UNCHANGED <<search_vars, strip_vars, file_vars>>)
    \/ (SkipBlank /\ UNCHANGED <<search_vars, strip_vars, file_vars>>)
    \/ (EmitHeading /\ UNCHANGED <<search_vars, strip_vars, file_vars>>)
    \/ (EmitTitleHeading /\ UNCHANGED <<search_vars, strip_vars, file_vars>>)
    \/ (EmitTable /\ UNCHANGED <<search_vars, strip_vars, file_vars>>)
    \/ (EmitParagraph /\ UNCHANGED <<search_vars, strip_vars, file_vars>>)
    \/ (Finish /\ UNCHANGED <<search_vars, strip_vars, file_vars>>)

SpecBlocks == BlockInit /\ [][BlockNext]_vars

-----------------------------------------------------------------------------
(* Claims about the block parser *)

LastBlock(bs) == bs[Len(bs)]

IsBlankLine(line) == \A k \in 1..Len(line) : line[k] \in Whitespace

Emitted == Len(blocks') = Len(blocks) + 1 /\ SubSeq(blocks', 1, Len(blocks)) = blocks

\* C6: every Table block has every data row exactly as long as its header list: a
\* shorter row is padded on the right with empty strings, a longer one is cut to
\* the header width, and the kept cells keep their order and content.
C6_RowsHaveHeaderWidth ==
    [][(bpc = "run" /\ Emitted /\ LastBlock(blocks').kind = "table") =>
          LET tb == LastBlock(blocks')
              width == Len(tb.headers)
          IN \A r \in 1..Len(tb.rows) :
                 LET cells == split_row(lines[i + 2 + r])
                 IN /\ Len(tb.rows[r]) = width
                    /\ \A c \in 1..width :
                           tb.rows[r][c] = IF c <= Len(cells) THEN cells[c] ELSE <<>>]_vars

C6_Witness ==
    /\ bpc = "done"
    /\ lines = <<<<"|", "a", "|", "b", "|">>, <<"|", "-", "-", "-", "|", "-", "-", "-", "|">>, <<"|", "1", "|">>, <<"|", "1", "|", "2", "|", "3", "|">>>>
    /\ Len(blocks) = 1
    /\ blocks[1].kind = "table"
    /\ blocks[1].headers = <<<<"a">>, <<"b">>>>
    /\ blocks[1].rows = << <<<<"1">>, <<>>>>, <<<<"1">>, <<"2">>>> >>

\* the line at index k (from 0) is a known title directly above a table start
TitleAboveTable(k) ==
    /\ k + 2 < Len(lines)
    /\ Lower(Strip(lines[k + 1])) \in {WwtCapabilities, WwtAtcLabs, WwtExperts}
    /\ StartsWith(LStrip(lines[k + 2]), Pipe)
    /\ MatchesSeparator(LStrip(lines[k + 3]))

\* the step consumes line k as Heading(2, trimmed text) and nothing else
ConsumedAsTitleHeading(k) ==
    /\ i = k /\ i' = k + 1
    /\ Emitted
    /\ LastBlock(blocks') = Heading(2, Strip(lines[k + 1]))

\* C7 as stated: every known-title line directly above a table start is emitted
\* as Heading(2, trimmed text) and never made part of a Paragraph, whatever lines
\* precede it.
C7_TitleAlwaysHeading ==
    [][bpc = "run" =>
          \A k \in i..(i' - 1) : TitleAboveTable(k) => ConsumedAsTitleHeading(k)]_vars

\* the line above index k (from 0) cannot carry a paragraph into line k
StartsBlock(k) ==
    k = 0 \/ IsBlank(lines[k]) \/ IsHeading(Strip(lines[k]))

\* C7 amended: a known-title line directly above a table start is emitted as
\* Heading(2, trimmed text), and is not made part of a Paragraph, when it is the
\* first line or the line above it is blank or a heading line.
C7_StandaloneTitleHeading ==
    [][bpc = "run" =>
          \A k \in i..(i' - 1) :
              (TitleAboveTable(k) /\ StartsBlock(k)) => ConsumedAsTitleHeading(k)]_vars

C7_Witness ==
    /\ bpc = "done"
    /\ lines = <<<<" ">>, <<"W", "W", "T", " ", "E", "x", "p", "e", "r", "t", "s">>, <<"|", "a", "|", "b", "|">>, <<"|", "-", "-", "-", "|", "-", "-", "-", "|">>>>
    /\ Len(blocks) = 2
    /\ blocks[1] = Heading(2, <<"W", "W", "T", " ", "E", "x", "p", "e", "r", "t", "s">>)
    /\ blocks[2].kind = "table"

\* C9: at a table start (a '|' line whose next line matches the separator
\* pattern, with or without a leading '|') the parser emits exactly one Table
\* block: its headers are the trimmed cells of the first line and are never
\* empty, its rows are the consecutive '|' lines after the separator, and the
\* separator line and the data rows are consumed by the table, not left to a
\* Paragraph.
C9_TableStartYieldsTable ==
    [][(bpc = "run" /\ i < Len(lines) /\ is_table_start(lines, i)) =>
          /\ Emitted
          /\ LastBlock(blocks').kind = "table"
          /\ LastBlock(blocks').headers = split_row(lines[i + 1])
          /\ LastBlock(blocks').headers # <<>>
          /\ i' >= i + 2
          /\ Len(LastBlock(blocks').rows) = i' - (i + 2)
          /\ i' < Len(lines) => ~StartsWith(LStrip(lines[i' + 1]), Pipe)]_vars

\* C10: the parser terminates: every iteration of the main loop advances the
\* line index by at least one, so at most as many blocks as lines are emitted;
\* no block is emitted for a blank line, no Paragraph has empty text, and the
\* parser stops exactly when the index reaches the number of lines.
C10_ParserTerminates ==
    /\ [](/\ i <= Len(lines)
          /\ Len(blocks) <= i
          /\ \A k \in 1..Len(blocks) :
                 blocks[k].kind = "paragraph" => blocks[k].text # <<>>
          /\ (bpc = "done") => i = Len(lines))
    /\ [][(bpc = "run" /\ bpc' = "run") =>
             /\ i' > i
             /\ Len(blocks') <= Len(blocks) + 1
             /\ Len(blocks') > Len(blocks) => ~IsBlankLine(lines[i + 1])]_vars

C10_Witness ==
    /\ bpc = "done"
    /\ lines = <<<<"x">>, <<" ">>, <<"|", "a", "|", "b", "|">>, <<"|", "-", "-", "-", "|", "-", "-", "-", "|">>>>
    /\ i = 4
    /\ Len(blocks) = 2

====
